---- MODULE Spec2Model ----
(***************************************************************************)
(* jaxlib/cuda_linalg.py: the two builders that lower "LU pivots to        *)
(* permutation" to a custom call of the native kernel                      *)
(* cuda_lu_pivots_to_permutation, followed by the kernel the call runs.    *)
(* The builders are translated from cuda_linalg.py.  The descriptor        *)
(* encoding and the kernel live in the native extension _cuda_linalg; they *)
(* are modelled from the specification (sections 4.1 and 5).               *)
(***************************************************************************)
EXTENDS Integers, Sequences, FiniteSets, TLC

\* ---------------------------------------------------------------- bounds
MaxRank == 2        \* pivots operands have rank 1..MaxRank
MaxDim == 2         \* every leading (batch) dimension is in 0..MaxDim
MaxPerm == 3        \* the trailing dimension and permutation_size are in 0..MaxPerm
MaxBatch == 2       \* the kernel is only run for batches of at most MaxBatch rows
MaxCells == 6       \* ... and output buffers of at most MaxCells elements
MaxPivCells == 3    \* unchecked-input runs: pivot buffers of at most MaxPivCells elements

ETypes == {"int32", "int64", "uint32", "float32"}
Garbage == {-1, MaxPerm}    \* representative contents of memory the kernel does not own

VARIABLES dims, etype, permutation_size,   \* the pivots operand and the keyword argument
          pc, opaque, call,                \* per builder: position, descriptor, emitted node
          kst, desc, pivots, buf, rpc, kk, result   \* the kernel run

vars == <<dims, etype, permutation_size, pc, opaque, call,
          kst, desc, pivots, buf, rpc, kk, result>>
glue == <<pc, opaque, call>>
inputs == <<dims, etype, permutation_size>>
kernel == <<kst, desc, pivots, buf, rpc, kk, result>>

\* ---------------------------------------------------------------- helpers
RECURSIVE _prod(_)
_prod(xs) == IF xs = <<>> THEN 1 ELSE _prod(SubSeq(xs, 1, Len(xs) - 1)) * xs[Len(xs)]

\* dims[:-1]
ButLast(xs) == SubSeq(xs, 1, Len(xs) - 1)

\* slip: the product of all the dimensions, the pivots included
BatchSize_AllDims(ds) == _prod(ds)

BatchSize(ds) == _prod(ButLast(ds))

\* slip: the first dimension instead of the last
PivotSize_First(ds) == ds[1]

PivotSize(ds) == ds[Len(ds)]

\* tuple(range(len(dims) - 1, -1, -1))
XlaLayout(ds) == [i \in 1..Len(ds) |-> Len(ds) - i]

\* slip: ascending minor-to-major order
MhloLayout_Ascending(ds) == [i \in 1..Len(ds) |-> i - 1]

\* np.arange(len(dims) - 1, -1, -1)
MhloLayout(ds) == [i \in 1..Len(ds) |-> Len(ds) - i]

\* slip: the first dimension replaced instead of the last
PermutationsDims_First(ds, psize) == [ds EXCEPT ![1] = psize]

\* permutations_dims = list(dims); permutations_dims[-1] = permutation_size
PermutationsDims(ds, psize) == [ds EXCEPT ![Len(ds)] = psize]

XlaTypeOk(et) == et = "int32"

\* slip: the width is compared and the signedness is not
MhloTypeOk_AnySign(et) == et \in {"int32", "uint32"}

MhloTypeOk(et) == et = "int32"

\* _cuda_linalg.cuda_lu_pivots_to_permutation_descriptor: packs the three sizes
Descriptor(b, m, n) == <<"LuPivotsToPermutationDescriptor", b, m, n>>

\* the kernel's view of the opaque blob
Unpack(d) == [batch_size |-> d[2], pivot_size |-> d[3], permutation_size |-> d[4]]

\* slip: permutation_size dropped, the output taken to be as wide as the pivots
XlaOpaque_Square(ds, psize) == Descriptor(BatchSize(ds), PivotSize(ds), PivotSize(ds))

XlaOpaque(ds, psize) == Descriptor(BatchSize(ds), PivotSize(ds), psize)

\* slip: permutation_size dropped, the output taken to be as wide as the pivots
MhloOpaque_Square(ds, psize) == Descriptor(BatchSize(ds), PivotSize(ds), PivotSize(ds))

MhloOpaque(ds, psize) == Descriptor(BatchSize(ds), PivotSize(ds), psize)

API_VERSION_STATUS_RETURNING == 2

MhloApiVersion == 2

\* slip: the operand's shape passed as the result's shape
XlaCustomCall_OperandShape(ds, psize, opq) ==
  [ target |-> "cuda_lu_pivots_to_permutation",
    operands |-> <<"pivots">>,
    result_etype |-> "int32",
    result_dims |-> ds,
    result_layouts |-> <<XlaLayout(ds)>>,
    operand_etypes |-> <<"int32">>,
    operand_dims |-> <<ds>>,
    operand_layouts |-> <<XlaLayout(ds)>>,
    opaque |-> opq,
    api_version |-> API_VERSION_STATUS_RETURNING ]

XlaCustomCall(ds, psize, opq) ==
  [ target |-> "cuda_lu_pivots_to_permutation",
    operands |-> <<"pivots">>,
    result_etype |-> "int32",
    result_dims |-> PermutationsDims(ds, psize),
    result_layouts |-> <<XlaLayout(ds)>>,
    operand_etypes |-> <<"int32">>,
    operand_dims |-> <<ds>>,
    operand_layouts |-> <<XlaLayout(ds)>>,
    opaque |-> opq,
    api_version |-> API_VERSION_STATUS_RETURNING ]

MhloCustomCall(ds, psize, opq) ==
  [ target |-> "cuda_lu_pivots_to_permutation",
    operands |-> <<"pivots">>,
    result_etype |-> "int32",
    result_dims |-> PermutationsDims(ds, psize),
    result_layouts |-> <<MhloLayout(ds)>>,
    operand_layouts |-> <<MhloLayout(ds)>>,
    opaque |-> opq,
    api_version |-> MhloApiVersion,
    has_side_effect |-> FALSE,
    called_computations |-> <<>> ]

\* ---------------------------------------------------------------- initial state
DimsSet == UNION { { bs \o <<m>> : bs \in [1..(r - 1) -> 0..MaxDim], m \in 0..MaxPerm }
                   : r \in 1..MaxRank }

Init ==
  /\ dims \in DimsSet
  /\ etype \in ETypes
  /\ permutation_size \in 0..MaxPerm
  /\ pc = [a \in {"xla", "mhlo"} |-> "start"]
  /\ opaque = [a \in {"xla", "mhlo"} |-> {}]
  /\ call = [a \in {"xla", "mhlo"} |-> {}]
  /\ kst = "idle"
  /\ desc = Unpack(Descriptor(0, 0, 0))
  /\ pivots = <<>>
  /\ buf = <<>>
  /\ rpc = <<>>
  /\ kk = <<>>
  /\ result = {}

\* ---------------------------------------------------------------- lu_pivots_to_permutation
XlaAssert ==
  /\ pc["xla"] = "start"
  /\ pc' = [pc EXCEPT !["xla"] = IF XlaTypeOk(etype) THEN "typed" ELSE "assert_failed"]
  /\ UNCHANGED <<inputs, opaque, call, kernel>>

XlaDescriptor ==
  /\ pc["xla"] = "typed"
  /\ opaque' = [opaque EXCEPT !["xla"] = {XlaOpaque(dims, permutation_size)}]
  /\ pc' = [pc EXCEPT !["xla"] = "described"]
  /\ UNCHANGED <<inputs, call, kernel>>

XlaEmit ==
  /\ pc["xla"] = "described"
  /\ call' = [call EXCEPT !["xla"] =
                 {XlaCustomCall(dims, permutation_size, opq) : opq \in opaque["xla"]}]
  /\ pc' = [pc EXCEPT !["xla"] = "emitted"]
  /\ UNCHANGED <<inputs, opaque, kernel>>

\* ---------------------------------------------------------------- lu_pivots_to_permutation_mhlo
MhloAssert ==
  /\ pc["mhlo"] = "start"
  /\ pc' = [pc EXCEPT !["mhlo"] = IF MhloTypeOk(etype) THEN "typed" ELSE "assert_failed"]
  /\ UNCHANGED <<inputs, opaque, call, kernel>>

MhloDescriptor ==
  /\ pc["mhlo"] = "typed"
  /\ opaque' = [opaque EXCEPT !["mhlo"] = {MhloOpaque(dims, permutation_size)}]
  /\ pc' = [pc EXCEPT !["mhlo"] = "described"]
  /\ UNCHANGED <<inputs, call, kernel>>

MhloEmit ==
  /\ pc["mhlo"] = "described"
  /\ call' = [call EXCEPT !["mhlo"] =
                 {MhloCustomCall(dims, permutation_size, opq) : opq \in opaque["mhlo"]}]
  /\ pc' = [pc EXCEPT !["mhlo"] = "emitted"]
  /\ UNCHANGED <<inputs, opaque, kernel>>

Builders == XlaAssert \/ XlaDescriptor \/ XlaEmit \/ MhloAssert \/ MhloDescriptor \/ MhloEmit

\* ---------------------------------------------------------------- the kernel
\* The pivots operand as the kernel sees it: OperandRows rows of OperandCols pivots.
OperandRows(ds) == _prod(SubSeq(ds, 1, Len(ds) - 1))

OperandCols(ds) == ds[Len(ds)]

\* number of elements of a dense array of the given dimensions
NumElements(ds) == _prod(ds)

\* a read or write outside the buffer does not touch the buffer
Rd(b, x, g) == IF x \in DOMAIN b THEN b[x] ELSE g

Wr(b, x, v) == IF x \in DOMAIN b THEN [b EXCEPT ![x] = v] ELSE b

\* row r of the output starts at r * permutation_size, row r of the pivots at r * pivot_size
RowBase(r, n) == r * n

PivBase(r, m) == r * m

\* step 1: perm[i] = i for i in [0, permutation_size)
InitRow(b, r, n) ==
  [x \in DOMAIN b |-> IF x - RowBase(r, n) \in 0..(n - 1) THEN x - RowBase(r, n) ELSE b[x]]

\* step 2, one iteration: swap perm[k] and perm[p_k]
SwapStep(b, r, n, k, p, g) ==
  Wr(Wr(b, RowBase(r, n) + k, Rd(b, RowBase(r, n) + p, g)),
     RowBase(r, n) + p, Rd(b, RowBase(r, n) + k, g))

\* the preconditions of expand: pivot_size <= permutation_size and k <= p_k < permutation_size
ValidPivots(pv, ds, n) ==
  /\ OperandCols(ds) <= n
  /\ \A r \in 0..(OperandRows(ds) - 1) : \A k \in 0..(OperandCols(ds) - 1) :
       /\ k <= pv[r * OperandCols(ds) + k]
       /\ pv[r * OperandCols(ds) + k] < n

Other(a) == IF a = "xla" THEN "mhlo" ELSE "xla"

\* the call runs once lowering has ended; the model runs it for small buffers only
CanStart(a) ==
  /\ kst = "idle"
  /\ pc[a] = "emitted"
  /\ pc[Other(a)] \in {"emitted", "assert_failed"}
  /\ OperandRows(dims) <= MaxBatch
  /\ OperandRows(dims) * permutation_size <= MaxCells

Start(a, pv, fill) ==
  /\ \E c \in call[a] :
       /\ desc' = Unpack(c.opaque)
       /\ buf' = [x \in 0..(NumElements(c.result_dims) - 1) |-> fill]
       /\ rpc' = [r \in 0..(Unpack(c.opaque).batch_size - 1) |-> "init"]
       /\ kk' = [r \in 0..(Unpack(c.opaque).batch_size - 1) |-> 0]
  /\ pivots' = pv
  /\ kst' = "running"
  /\ UNCHANGED <<inputs, glue, result>>

\* a run whose input meets the preconditions of expand
Launch ==
  \E a \in {"xla", "mhlo"} :
    /\ CanStart(a)
    /\ OperandCols(dims) <= permutation_size
    /\ \E fill \in Garbage :
         \E pv \in [0..(NumElements(dims) - 1) -> 0..(MaxPerm - 1)] :
           /\ ValidPivots(pv, dims, permutation_size)
           /\ Start(a, pv, fill)

\* a run on any pivots: the builders and the kernel check none of the values
LaunchAny ==
  \E a \in {"xla", "mhlo"} :
    /\ CanStart(a)
    /\ NumElements(dims) <= MaxPivCells
    /\ \E fill \in Garbage :
         \E pv \in [0..(NumElements(dims) - 1) -> (-1)..permutation_size] :
           Start(a, pv, fill)

RowInit(r) ==
  /\ kst = "running"
  /\ rpc[r] = "init"
  /\ buf' = InitRow(buf, r, desc.permutation_size)
  /\ rpc' = [rpc EXCEPT ![r] = IF desc.pivot_size > 0 THEN "swap" ELSE "done"]
  /\ UNCHANGED <<inputs, glue, kst, desc, pivots, kk, result>>

RowSwap(r) ==
  /\ kst = "running"
  /\ rpc[r] = "swap"
  /\ \E g \in Garbage :
       buf' = SwapStep(buf, r, desc.permutation_size, kk[r],
                       Rd(pivots, PivBase(r, desc.pivot_size) + kk[r], g), g)
  /\ kk' = [kk EXCEPT ![r] = kk[r] + 1]
  /\ rpc' = [rpc EXCEPT ![r] = IF kk[r] + 1 < desc.pivot_size THEN "swap" ELSE "done"]
  /\ UNCHANGED <<inputs, glue, kst, desc, pivots, result>>

\* an access outside the buffers may also end the run with a device fault
OutOfBounds(r) ==
  \/ PivBase(r, desc.pivot_size) + kk[r] \notin DOMAIN pivots
  \/ RowBase(r, desc.permutation_size) + kk[r] \notin DOMAIN buf
  \/ /\ PivBase(r, desc.pivot_size) + kk[r] \in DOMAIN pivots
     /\ RowBase(r, desc.permutation_size)
          + pivots[PivBase(r, desc.pivot_size) + kk[r]] \notin DOMAIN buf

RowFault(r) ==
  /\ kst = "running"
  /\ rpc[r] = "swap"
  /\ OutOfBounds(r)
  /\ kst' = "fault"
  /\ UNCHANGED <<inputs, glue, desc, pivots, buf, rpc, kk, result>>

Finish ==
  /\ kst = "running"
  /\ \A r \in DOMAIN rpc : rpc[r] = "done"
  /\ kst' = "done"
  /\ result' = {buf}
  /\ UNCHANGED <<inputs, glue, desc, pivots, buf, rpc, kk>>

Rows == \E r \in DOMAIN rpc : RowInit(r) \/ RowSwap(r)

Faults == \E r \in DOMAIN rpc : RowFault(r)

Next == Builders \/ Launch \/ Rows \/ Finish

NextAny == Builders \/ LaunchAny \/ Rows \/ Faults \/ Finish

Spec == Init /\ [][Next]_vars

SpecAny == Init /\ [][NextAny]_vars

\* ---------------------------------------------------------------- reference definitions
B0 == OperandRows(dims)
M0 == OperandCols(dims)
N0 == permutation_size

\* a 0-based array from a tuple
Arr(s) == [i \in 0..(Len(s) - 1) |-> s[i + 1]]

Ident(n) == [i \in 0..(n - 1) |-> i]

\* element x of a buffer; -2 stands for "no such element"
Cell(b, x) == IF x \in DOMAIN b THEN b[x] ELSE -2

\* row r of the pivots operand and of an output buffer, by the operand's and result's shapes
PivRow(r) == [k \in 0..(M0 - 1) |-> Cell(pivots, r * M0 + k)]

OutRow(b, r) == [i \in 0..(N0 - 1) |-> Cell(b, r * N0 + i)]

\* the transpositions swap(perm[o], perm[pv[o]]) applied for o = order[t], ..., order[m-1]
RECURSIVE ApplyOrder(_, _, _, _, _)
ApplyOrder(perm, pv, order, t, m) ==
  IF t >= m THEN perm
  ELSE ApplyOrder([perm EXCEPT ![order[t]] = perm[pv[order[t]]],
                               ![pv[order[t]]] = perm[order[t]]],
                  pv, order, t + 1, m)

\* section 4.1, steps 1-3, stopped after the first j swaps
Partial(pv, n, j) == ApplyOrder(Ident(n), pv, Ident(j), 0, j)

Expand(pv, m, n) == Partial(pv, n, m)

\* the run in progress (or ended) was given pivots meeting the preconditions of expand
Valid == kst # "idle" /\ ValidPivots(pivots, dims, N0)

Returned == kst = "done" /\ result # {}

RowsOk == DOMAIN rpc = 0..(B0 - 1)

\* ---------------------------------------------------------------- C1
\* C1: for valid pivots the returned row is the identity with swap(perm[k], perm[p_k])
\* applied for k = 0..pivot_size-1 in order; [2] with size 3 gives [2,1,0] and
\* [1,2,2] with size 3 gives [1,2,0].
C1_ExpandIsSequentialSwaps ==
  (Valid /\ kst = "done") =>
    /\ result # {}
    /\ \A b \in result : \A r \in 0..(B0 - 1) :
         /\ OutRow(b, r) = Expand(PivRow(r), M0, N0)
         /\ (N0 = 3 /\ PivRow(r) = Arr(<<2>>)) => OutRow(b, r) = Arr(<<2, 1, 0>>)
         /\ (N0 = 3 /\ PivRow(r) = Arr(<<1, 2, 2>>)) => OutRow(b, r) = Arr(<<1, 2, 0>>)

C1_Witness ==
  /\ Returned /\ Valid /\ N0 = 3 /\ B0 = 1
  /\ PivRow(0) = Arr(<<1, 2, 2>>)
  /\ \E b \in result : OutRow(b, 0) = Arr(<<1, 2, 0>>)

\* ---------------------------------------------------------------- C2
\* C2: for valid pivots every row is a bijection on 0..permutation_size-1 once it is
\* initialised, after each of its swaps, and in the returned result.
IsBijection(row, n) == {row[i] : i \in DOMAIN row} = 0..(n - 1) /\ DOMAIN row = 0..(n - 1)

C2_AlwaysBijection ==
  (Valid /\ kst \in {"running", "done"}) =>
    /\ RowsOk
    /\ \A r \in 0..(B0 - 1) : rpc[r] # "init" => IsBijection(OutRow(buf, r), N0)
    /\ \A b \in result : \A r \in 0..(B0 - 1) : IsBijection(OutRow(b, r), N0)

C2_Witness ==
  /\ Valid /\ kst = "running" /\ N0 = 3 /\ B0 = 2
  /\ rpc[0] = "swap" /\ kk[0] = 1 /\ OutRow(buf, 0) = Arr(<<2, 1, 0>>)
  /\ rpc[1] = "done" /\ OutRow(buf, 1) # Ident(3)

\* ---------------------------------------------------------------- C3
InvalidPivotPresent ==
  \E r \in 0..(B0 - 1) : \E k \in 0..(M0 - 1) :
    PivRow(r)[k] < k \/ PivRow(r)[k] >= N0

\* C3: an out-of-range pivot (p_k < k or p_k >= permutation_size) makes the operation
\* fail with InvalidPivot: no swap is performed on it and no permutation is returned.
C3_InvalidPivotReturnsNothing ==
  (kst # "idle" /\ InvalidPivotPresent) => (result = {} /\ kst # "done")

\* ---------------------------------------------------------------- C4
\* C4: when the element type is not int32 both builders stop at the assertion: no
\* descriptor is built, no call is emitted, nothing runs and nothing is returned.
C4_WrongTypeProducesNothing ==
  etype # "int32" =>
    /\ \A a \in {"xla", "mhlo"} :
         /\ pc[a] \in {"start", "assert_failed"}
         /\ opaque[a] = {}
         /\ call[a] = {}
    /\ kst = "idle"
    /\ result = {}

C4_Witness ==
  /\ etype = "uint32"
  /\ pc["xla"] = "assert_failed" /\ pc["mhlo"] = "assert_failed"
  /\ opaque["xla"] = {} /\ call["mhlo"] = {}

\* ---------------------------------------------------------------- C5
\* d_lo * ... * d_hi, folded from the right
RECURSIVE ProdFrom(_, _, _)
ProdFrom(ds, lo, hi) == IF lo > hi THEN 1 ELSE ds[lo] * ProdFrom(ds, lo + 1, hi)

\* C5: the emitted call's result has the operand's dimensions with only the last one
\* replaced by permutation_size, and the descriptor carries batch_size = the product of
\* the leading dimensions (1 for rank 1), pivot_size = the last dimension, and
\* permutation_size.
C5_ShapeAndDescriptor ==
  \A a \in {"xla", "mhlo"} :
    /\ pc[a] = "emitted" => call[a] # {}
    /\ \A c \in call[a] :
         /\ Len(c.result_dims) = Len(dims)
         /\ \A i \in 1..(Len(dims) - 1) : c.result_dims[i] = dims[i]
         /\ c.result_dims[Len(dims)] = N0
         /\ Unpack(c.opaque) = [ batch_size |-> ProdFrom(dims, 1, Len(dims) - 1),
                                 pivot_size |-> dims[Len(dims)],
                                 permutation_size |-> N0 ]
         /\ (Len(dims) = 1 => Unpack(c.opaque).batch_size = 1)

C5_Witness ==
  /\ dims = <<2, 3>> /\ N0 = 1
  /\ \E c \in call["xla"] : c.result_dims = <<2, 1>> /\ Unpack(c.opaque).batch_size = 2
  /\ \E c \in call["mhlo"] : c.result_dims = <<2, 1>> /\ Unpack(c.opaque).pivot_size = 3

\* ---------------------------------------------------------------- C6
\* C6: with the rows' steps interleaved in any order, every row's part of the output
\* is at every moment what that row alone would have after the same number of its own
\* swaps, and the returned row is what expand gives for that row alone.
C6_BatchIndependence ==
  (Valid /\ kst \in {"running", "done"}) =>
    /\ RowsOk
    /\ \A r \in 0..(B0 - 1) :
         /\ rpc[r] # "init" => OutRow(buf, r) = Partial(PivRow(r), N0, kk[r])
         /\ rpc[r] = "done" => kk[r] = M0
    /\ \A b \in result : \A r \in 0..(B0 - 1) : OutRow(b, r) = Partial(PivRow(r), N0, M0)

C6_Witness ==
  /\ Valid /\ kst = "running" /\ B0 = 2 /\ M0 = 2 /\ N0 = 3
  /\ PivRow(0) # PivRow(1)
  /\ rpc[0] = "swap" /\ kk[0] = 1 /\ OutRow(buf, 0) # Ident(3)
  /\ rpc[1] = "done" /\ OutRow(buf, 1) = Arr(<<2, 0, 1>>)

\* ---------------------------------------------------------------- C7
PivotValues(r) == {PivRow(r)[k] : k \in 0..(M0 - 1)}

\* C7: for valid pivots, an index i in [pivot_size, permutation_size) that is no pivot
\* value keeps perm[i] = i; with permutation_size = pivot_size the output rows have
\* exactly pivot_size entries.
C7_UntouchedTailIsIdentity ==
  (Valid /\ kst = "done") =>
    /\ result # {}
    /\ \A b \in result :
         /\ DOMAIN b = 0..(B0 * N0 - 1)
         /\ \A r \in 0..(B0 - 1) : \A i \in M0..(N0 - 1) :
              i \notin PivotValues(r) => Cell(b, r * N0 + i) = i
    /\ \A a \in {"xla", "mhlo"} : \A c \in call[a] :
         N0 = M0 => c.result_dims[Len(dims)] = M0

C7_Witness ==
  /\ Returned /\ Valid /\ B0 = 1 /\ M0 = 1 /\ N0 = 3
  /\ PivRow(0) = Arr(<<1>>)
  /\ \E b \in result : OutRow(b, 0) = Arr(<<1, 0, 2>>)

\* ---------------------------------------------------------------- C8
\* C8 as stated: for valid pivots, perm[i] = i for every i in [pivot_size, permutation_size).
C8_TailIsIdentity ==
  (Valid /\ kst = "done") =>
    \A b \in result : \A r \in 0..(B0 - 1) : \A i \in M0..(N0 - 1) : OutRow(b, r)[i] = i

\* C8 amended: for valid pivots all of which are below pivot_size, perm[i] = i for
\* every i in [pivot_size, permutation_size).
C8_TailIsIdentityWhenPivotsBelowPivotSize ==
  (Valid /\ kst = "done") =>
    /\ result # {}
    /\ \A b \in result : \A r \in 0..(B0 - 1) :
         (\A k \in 0..(M0 - 1) : PivRow(r)[k] < M0) =>
           \A i \in M0..(N0 - 1) : OutRow(b, r)[i] = i

C8_Witness ==
  /\ Returned /\ Valid /\ B0 = 1 /\ M0 = 2 /\ N0 = 3
  /\ PivRow(0) = Arr(<<1, 1>>)
  /\ \E b \in result : OutRow(b, 0) = Arr(<<1, 0, 2>>)

\* ---------------------------------------------------------------- C9
Orders(m) == {o \in [0..(m - 1) -> 0..(m - 1)] : {o[t] : t \in 0..(m - 1)} = 0..(m - 1)}

\* the order 0..m-1 with steps j and j+1 exchanged
Exchange(j, m) == [t \in 0..(m - 1) |-> IF t = j THEN j + 1 ELSE IF t = j + 1 THEN j ELSE t]

\* the transpositions of steps i and j are both proper and have an index in common
Entangled(pv, i, j) ==
  /\ pv[i] # i
  /\ pv[j] # j
  /\ {i, pv[i]} \cap {j, pv[j]} # {}

Descending(n) == [i \in 1..n |-> n - i]

\* C10: on the same operand and permutation_size the two builders either both fail the
\* type assertion or both emit one call of cuda_lu_pivots_to_permutation with the same
\* operand, descriptor, result dimensions, API version 2 and the descending layout
\* (n-1, ..., 0) for operand and result.
C10_BuildersAgree ==
  /\ pc["xla"] = "assert_failed" => pc["mhlo"] \in {"start", "assert_failed"}
  /\ pc["mhlo"] = "assert_failed" => pc["xla"] \in {"start", "assert_failed"}
  /\ \A a \in {"xla", "mhlo"} : Cardinality(call[a]) = (IF pc[a] = "emitted" THEN 1 ELSE 0)
  /\ \A x \in call["xla"] : \A y \in call["mhlo"] :
       /\ x.target = "cuda_lu_pivots_to_permutation" /\ y.target = x.target
       /\ x.operands = <<"pivots">> /\ y.operands = x.operands
       /\ x.opaque = y.opaque
       /\ Unpack(x.opaque) = Unpack(y.opaque)
       /\ x.result_dims = y.result_dims
       /\ x.result_etype = y.result_etype
       /\ x.api_version = 2 /\ y.api_version = 2
       /\ x.operand_layouts = <<Descending(Len(dims))>> /\ y.operand_layouts = x.operand_layouts
       /\ x.result_layouts = <<Descending(Len(dims))>> /\ y.result_layouts = x.result_layouts

C10_Witness ==
  /\ dims = <<1, 2>>
  /\ pc["xla"] = "emitted" /\ pc["mhlo"] = "emitted"
  /\ \E x \in call["xla"] : \E y \in call["mhlo"] :
       x.operand_layouts = <<(<<1, 0>>)>> /\ y.result_layouts = <<(<<1, 0>>)>>
====
